---- MODULE Spec2Model ----
(***************************************************************************)
(* Cute Pi Alarm Clock: the Clock component (alarm scheduler), the         *)
(* PiOverlay component (digit verifier) and utils/audio (escalation timer  *)
(* and melody loop), as one state machine.                                 *)
(*                                                                         *)
(* Time is discrete, one unit per poll period (PollMs).  A timer is a due  *)
(* time; time advances only when every timer due now has run.  A state     *)
(* update made by a timer callback, or by a drag move (a native listener   *)
(* on window), is rendered by a later step (Render), at most               *)
(* MaxRenderDelay units later; an update made by a click or an input       *)
(* event is rendered with the event, together with the updates that were   *)
(* pending.  A handler reads the state of the last render (its closure).   *)
(* A render that React schedules commits first and runs its effects        *)
(* (useEffect) in a later step (RunEffects): in between, the intervals and *)
(* the overlay state are those of the effects run before.  The render of a *)
(* click or an input event runs the pending effects and its own at once.   *)
(***************************************************************************)
EXTENDS Integers, Sequences, FiniteSets

\* ------------------------------------------------------------- bounds
\* Last time unit of a run (units since the page was loaded).
Horizon == 3
\* Longest text of an input event in VerifierSpec.
MaxTextLen == 4
\* Cap of the alarmOscillators length that the model counts to.
MaxOscillators == 1
\* Most setIsWrong(false) timeouts pending at once: the user types a wrong
\* text only while fewer are pending.
MaxWrongTimers == 2
\* Last time unit of a run of EscalationSpec: 70 seconds after the trigger.
EscalationHorizon == 140
\* Longest time, in units, from a state update made by a timer callback or a
\* drag move to the end of the render that React schedules for it: its
\* commit and the run of its effects.
MaxRenderDelay == 1

\* ---------------------------------------------------------- constants
Null == -1
PollMs == 500
ClockTickMs == 1000
EscalationTickMs == 1000
OverlayLevelMs == 10000
SecondsPerLevel == 10
InitialGain == 30
GainPerLevel == 15
MaxGain == 100
AnnoyingLevel == 4
TickSoundDegrees == 5
HoursPerDay == 24
HoursPerDial == 12
MinutesPerHour == 60
SecondsPerMinute == 60
MsPerSecond == 1000

Min(a, b) == IF a < b THEN a ELSE b

\* ------------------------------------------------------------ strings
\* A string is a sequence of one-character strings.
DigitChars == <<"0", "1", "2", "3", "4", "5", "6", "7", "8", "9">>

IsDigit(c) == \E d \in 1..10 : DigitChars[d] = c

DigitValue(c) == (CHOOSE d \in 1..10 : DigitChars[d] = c) - 1

\* Number.prototype.toString() of a non-negative integer.
RECURSIVE ToString(_)
ToString(n) ==
    IF n < 10 THEN <<DigitChars[n + 1]>>
    ELSE ToString(n \div 10) \o <<DigitChars[(n % 10) + 1]>>

\* String.prototype.padStart(len, c).
RECURSIVE PadStart(_, _, _)
PadStart(s, len, c) == IF Len(s) >= len THEN s ELSE PadStart(<<c>> \o s, len, c)

\* parseInt of a string of decimal digits (the only strings it is given).
RECURSIVE ParseInt(_)
ParseInt(s) ==
    IF s = <<>> THEN 0
    ELSE ParseInt(SubSeq(s, 1, Len(s) - 1)) * 10 + DigitValue(s[Len(s)])

\* String.prototype.substring(0, n).
Substring0(s, n) == SubSeq(s, 1, Min(n, Len(s)))

\* The digits of pi after "3.", as far as the model holds them.
PI_DIGITS ==
    <<"1", "4", "1", "5", "9", "2", "6", "5", "3", "5",
      "8", "9", "7", "9", "3", "2", "3", "8", "4", "6",
      "2", "6", "4", "3", "3", "8", "3", "2", "7", "9",
      "5", "0", "2", "8", "8", "4", "1", "9", "7", "1",
      "6", "9", "3", "9", "9", "3", "7", "5", "1", "0">>

\* ----------------------------------------------------- digit verifier
\* PiOverlay: requiredDigits (HHMM read as a number, 0 without an alarm).
RequiredDigits(h, m) ==
    IF h # Null /\ m # Null
    THEN ParseInt(PadStart(ToString(h), 2, "0") \o PadStart(ToString(m), 2, "0"))
    ELSE 0

ExpectedDigits(h, m) == Substring0(PI_DIGITS, RequiredDigits(h, m))

\* The text "3." followed by the first n digits of pi.
ThreePointPi(n) == <<"3", ".">> \o Substring0(PI_DIGITS, n)

\* value.replace(/^3\.?/, '')
StripLeadingThree(t) ==
    IF t # <<>> /\ t[1] = "3"
    THEN IF Len(t) >= 2 /\ t[2] = "." THEN SubSeq(t, 3, Len(t)) ELSE Tail(t)
    ELSE t

\* The normalization without the removal of the non-digit characters.
DigitsKeepingNonDigits(t) == StripLeadingThree(t)

\* .replace(/[^0-9]/g, '')
DigitsAfterDecimal(t) == SelectSeq(StripLeadingThree(t), IsDigit)

\* handleInputChange's loop: expected[i] is undefined past the end of expected,
\* which equals no digit.
RECURSIVE CountFrom(_, _, _)
CountFrom(digits, expected, i) ==
    IF i > Len(digits) THEN 0
    ELSE IF i <= Len(expected) /\ digits[i] = expected[i]
         THEN 1 + CountFrom(digits, expected, i + 1)
         ELSE 0

CorrectCount(digits, expected) == CountFrom(digits, expected, 1)

\* The render's loop: it also stops at the end of expected.
RECURSIVE ProgressFrom(_, _, _)
ProgressFrom(digits, expected, i) ==
    IF i > Len(digits) \/ i > Len(expected) THEN 0
    ELSE IF digits[i] = expected[i]
         THEN 1 + ProgressFrom(digits, expected, i + 1)
         ELSE 0

ProgressOf(text, h, m) == ProgressFrom(DigitsAfterDecimal(text), ExpectedDigits(h, m), 1)

\* if (digitsAfterDecimal.length > 0 && correctCount < digitsAfterDecimal.length)
IsMismatch(digits, count) == Len(digits) > 0 /\ count < Len(digits)

\* The completion test with > for >=.
IsCompleteStrict(count, required) == count > required

\* if (correctCount >= requiredDigits)
IsComplete(count, required) == count >= required

\* --------------------------------------------------------------- time
UnitsPerSecond == MsPerSecond \div PollMs
ClockTickUnits == ClockTickMs \div PollMs
EscalationTickUnits == EscalationTickMs \div PollMs
OverlayLevelUnits == OverlayLevelMs \div PollMs
PollUnits == PollMs \div PollMs
DayUnits == HoursPerDay * MinutesPerHour * SecondsPerMinute * UnitsPerSecond

\* A time of day, in units since midnight.
TimeOfDay(h, m, s, half) ==
    ((h * MinutesPerHour + m) * SecondsPerMinute + s) * UnitsPerSecond + half

\* Date.prototype.getHours / getMinutes / getSeconds of a time of day.
GetHours(w) == w \div (MinutesPerHour * SecondsPerMinute * UnitsPerSecond)
GetMinutes(w) == (w \div (SecondsPerMinute * UnitsPerSecond)) % MinutesPerHour
GetSeconds(w) == (w \div UnitsPerSecond) % SecondsPerMinute

\* The time of day at which a run of Spec starts: half a second before
\* 00:02; a run of SettingSpec may start half a second before midnight too.
StartTimes == {TimeOfDay(0, 1, 59, 1)}
SettingStartTimes == StartTimes \cup {TimeOfDay(23, 59, 59, 1)}

\* The angles (tenths of a degree, in [0, 360)) a drag move of the hour hand
\* and of the minute hand may report: 0 degrees and 12 degrees, and in
\* SettingSpec 358 degrees too.
HourAngles == {0}
MinuteAngles == {120}
SettingMinuteAngles == MinuteAngles \cup {3580}

\* The texts an input event may carry in Spec: a partial entry, a wrong
\* digit, and the complete entry for 00:02.
TypedTexts == { <<"3", ".", "1">>, <<"3", ".", "4">>, <<"3", ".", "1", "4">> }

VARIABLES
    bootTime,          \* time of day at which the page was loaded
    uptime,            \* units since then: Date.now() is uptime * PollMs
    currentTime,       \* Clock state: [h, m] of the last sampled Date
    renderedTime,      \* currentTime as of the last render (the handlers' closure)
    renderedSetting,   \* [h, m]: settingHour, settingMinute as of the last render
    renderDue,         \* time by which the pending render and effects have run,
                       \* Null without any
    effectOpen,        \* isOpen as of the last run of the effects
    listenerSetting,   \* [h, m] of the render whose effect registered the
                       \* hands' move listeners (their rotation closure)
    isSettingMode, alarmHour, alarmMinute, isAlarmTriggered, alarmTimeDisplay,
    settingHour, settingMinute,
    timeTimer,         \* the 1000 ms interval of the current-time effect (due time)
    alarmCheck,        \* the 500 ms poll interval: [due, h, m] of its closure
    isOpen,            \* PiOverlay's isOpen prop as last rendered
    input, isWrong, volumeLevel,   \* PiOverlay state
    overlayTimer,      \* the 10000 ms interval of PiOverlay's volume effect
    wrongTimers,       \* pending setTimeout(() => setIsWrong(false), 300)
    audio,             \* utils/audio module state and the startAlarm closures
    triggerCount,      \* history: triggerAlarm calls since the alarm was confirmed
    last               \* history: the last handler that ran and what it computed

vars == <<bootTime, uptime, currentTime, renderedTime, renderedSetting, renderDue,
          effectOpen, listenerSetting, isSettingMode, alarmHour, alarmMinute,
          isAlarmTriggered, alarmTimeDisplay, settingHour, settingMinute,
          timeTimer, alarmCheck, isOpen, input, isWrong, volumeLevel,
          overlayTimer, wrongTimers, audio, triggerCount, last>>

clockVars == <<currentTime, isSettingMode, alarmHour, alarmMinute,
               isAlarmTriggered, alarmTimeDisplay, settingHour, settingMinute>>

Now == (bootTime + uptime) % DayUnits

NoPoll == [due |-> Null, h |-> Null, m |-> Null]

\* last: "input" with the text of the event and what handleInputChange
\* computed (complete: it called onCorrect), "trigger" after triggerAlarm,
\* "other" after any other step.
Op(name) == [op |-> name, text |-> <<>>, count |-> 0, required |-> 0,
             mismatch |-> FALSE, complete |-> FALSE]

Other == Op("other")

\* -------------------------------------------------------------- audio
\* let audioContext = null; let alarmOscillators = []; let alarmGainNode = null;
\* let alarmIntervalId = null.  closures: one per startAlarm call, its
\* volumeLevel and startTime, the note timeouts pending, whether a
\* playMelody timeout is pending, and the onVolumeChange calls it made
\* (level, and units since startTime), the playAlarmBeep calls it made and
\* the length of the notes array its last playMelody chose.  available: the
\* browser has an AudioContext constructor.  beeping: the oscillator of a
\* playAlarmBeep is sounding (it stops itself after 150 ms).
AudioInit ==
    [audioContext |-> FALSE, alarmOscillators |-> 0, alarmGainNode |-> Null,
     alarmIntervalId |-> Null, closures |-> <<>>, available |-> TRUE,
     beeping |-> FALSE]

\* The module state in a browser without window.AudioContext and
\* window.webkitAudioContext.
AudioUnavailable == [AudioInit EXCEPT !.available = FALSE]

\* initAudio() throws: there is no context yet and new (undefined)() is a
\* TypeError.
initAudioThrows(a) == ~a.audioContext /\ ~a.available

\* initAudio(): creates the context on first use.
initAudio(a) == IF initAudioThrows(a) THEN a ELSE [a EXCEPT !.audioContext = TRUE]

\* stopAlarm() without its clearInterval.
stopAlarmKeepsInterval(a) ==
    [a EXCEPT !.alarmOscillators = 0,
              !.alarmGainNode = IF a.alarmGainNode # Null THEN 0 ELSE Null]

\* stopAlarm() without alarmOscillators = [].
stopAlarmKeepsOscillators(a) ==
    [a EXCEPT !.alarmIntervalId = Null,
              !.alarmGainNode = IF a.alarmGainNode # Null THEN 0 ELSE Null]

\* stopAlarm(): stops and forgets the oscillators, clears the escalation
\* interval and sets the gain to 0.  It clears no setTimeout and keeps the
\* gain node.
stopAlarm(a) ==
    [a EXCEPT !.alarmOscillators = 0,
              !.alarmIntervalId = Null,
              !.alarmGainNode = IF a.alarmGainNode # Null THEN 0 ELSE Null]

\* The notes array chosen one level early.
NotesOfLevelThree(level) == IF level >= AnnoyingLevel - 1 THEN 6 ELSE 4

\* notes.length: 6 notes when isAnnoying, 4 otherwise.
NotesOf(level) == IF level >= AnnoyingLevel THEN 6 ELSE 4

\* playMelody() of closure k: one setTimeout per note, and one for itself.
playMelody(a, k) ==
    IF a.alarmGainNode = Null THEN [a EXCEPT !.closures[k].loop = FALSE]
    ELSE [a EXCEPT !.closures[k].notes = @ + NotesOf(a.closures[k].volumeLevel),
                   !.closures[k].pattern = NotesOf(a.closures[k].volumeLevel),
                   !.closures[k].loop = TRUE]

\* startAlarm(onVolumeChange) at time t.
\* When initAudio throws, only the stopAlarm() before it has run.
startAlarm(a, t) ==
    LET s == initAudio(stopAlarm(a))
        g == [s EXCEPT !.alarmGainNode = InitialGain,
                       !.closures = Append(@, [volumeLevel |-> 1, startTime |-> t,
                                               notes |-> 0, loop |-> FALSE,
                                               reported |-> <<>>, beeps |-> 0,
                                               pattern |-> 0])]
        p == playMelody(g, Len(g.closures))
    IN IF initAudioThrows(stopAlarm(a)) THEN stopAlarm(a)
       ELSE [p EXCEPT !.alarmIntervalId = t + EscalationTickUnits]

\* playTone(): needs the gain node and the context; pushes one oscillator.
playTone(a) ==
    IF a.alarmGainNode = Null \/ ~a.audioContext THEN a
    ELSE [a EXCEPT !.alarmOscillators = Min(@ + 1, MaxOscillators)]

\* The level with Math.round for Math.floor.
LevelAtRounded(t, startTime) ==
    ((2 * (t - startTime) * PollMs + MsPerSecond * SecondsPerLevel)
        \div (2 * MsPerSecond * SecondsPerLevel)) + 1

\* Math.floor(elapsed / 10) + 1 with elapsed = (Date.now() - startTime) / 1000.
LevelAt(t, startTime) ==
    (((t - startTime) * PollMs) \div (MsPerSecond * SecondsPerLevel)) + 1

\* Math.min(0.3 + volumeLevel * 0.15, 1), in hundredths.
GainOf(level) == Min(InitialGain + level * GainPerLevel, MaxGain)

\* playAlarmBeep(): needs the context and the gain node; its oscillator goes
\* through a gain node of its own to the destination, not through
\* alarmGainNode, and is not pushed to alarmOscillators.
playAlarmBeep(a) ==
    IF ~a.audioContext \/ a.alarmGainNode = Null THEN a
    ELSE [a EXCEPT !.beeping = TRUE]

\* beepOsc.stop(currentTime + 0.15): the beep is over when time has passed.
beepOver(a) == [a EXCEPT !.beeping = FALSE]

\* The escalation interval's callback at time t (it belongs to the last
\* closure); onVolumeChange is always given by triggerAlarm.
escalate(a, t) ==
    LET k == Len(a.closures)
        newLevel == LevelAt(t, a.closures[k].startTime)
        g == [a EXCEPT !.closures[k].volumeLevel = newLevel,
                       !.closures[k].reported =
                           Append(@, [level |-> newLevel,
                                      at |-> t - a.closures[k].startTime]),
                       !.alarmGainNode = GainOf(newLevel),
                       !.alarmIntervalId = t + EscalationTickUnits]
    IN IF newLevel # a.closures[k].volumeLevel /\ a.alarmGainNode # Null
       THEN IF newLevel >= AnnoyingLevel
            THEN playAlarmBeep([g EXCEPT !.closures[k].beeps = @ + 1])
            ELSE g
       ELSE [a EXCEPT !.alarmIntervalId = t + EscalationTickUnits]

\* The alarm callbacks still pending: the interval, the note timeouts and
\* the playMelody timeouts.
RECURSIVE PendingTimeouts(_, _)
PendingTimeouts(cs, k) ==
    IF k = 0 THEN 0
    ELSE cs[k].notes + (IF cs[k].loop THEN 1 ELSE 0) + PendingTimeouts(cs, k - 1)

PendingAlarmCallbacks(a) ==
    (IF a.alarmIntervalId # Null THEN 1 ELSE 0)
    + PendingTimeouts(a.closures, Len(a.closures))

\* ---------------------------------------------------------- rendering
\* State updates that no render has committed yet.
Uncommitted ==
    \/ currentTime # renderedTime
    \/ [h |-> settingHour, m |-> settingMinute] # renderedSetting
    \/ isAlarmTriggered # isOpen

\* Effects of the last commit that have not run yet: those with the dep
\* isAlarmTriggered / isOpen, and ClockHand's, with the dep rotation.
EffectsPending ==
    \/ effectOpen # isOpen
    \/ listenerSetting # renderedSetting

\* The render of a click or an input event, given the overlay state the
\* handler leaves: React runs the effects still pending from the commit
\* before (after the handler, so their state updates come last), commits
\* and runs the effects of the new render.  The effects are the current-time
\* effect (deps isSettingMode, isAlarmTriggered), the alarm check effect (deps
\* alarmHour, alarmMinute, isAlarmTriggered), PiOverlay's two effects (deps
\* isOpen) and ClockHand's (deps rotation): an effect whose deps did not
\* change keeps its interval; one whose deps changed clears it and may
\* create a new one.
Effects(inp, wrong, lvl) ==
    LET opened == (isOpen /\ ~effectOpen) \/ (isAlarmTriggered' /\ ~isOpen)
        reran == effectOpen # isOpen \/ isOpen # isAlarmTriggered'
    IN /\ isOpen' = isAlarmTriggered'
       /\ effectOpen' = isAlarmTriggered'
       /\ renderedTime' = currentTime'
       /\ renderedSetting' = [h |-> settingHour', m |-> settingMinute']
       /\ listenerSetting' = [h |-> settingHour', m |-> settingMinute']
       /\ renderDue' = Null
       /\ timeTimer' =
            IF isSettingMode' = isSettingMode /\ ~reran THEN timeTimer
            ELSE IF isSettingMode' \/ isOpen' THEN Null
            ELSE uptime + ClockTickUnits
       /\ alarmCheck' =
            IF alarmHour' = alarmHour /\ alarmMinute' = alarmMinute /\ ~reran
            THEN alarmCheck
            ELSE IF alarmHour' = Null \/ alarmMinute' = Null \/ isOpen' THEN NoPoll
            ELSE [due |-> uptime + PollUnits, h |-> alarmHour', m |-> alarmMinute']
       /\ IF opened
          THEN /\ input' = <<>>
               /\ isWrong' = FALSE
               /\ volumeLevel' = 1
          ELSE /\ input' = inp
               /\ isWrong' = wrong
               /\ volumeLevel' = lvl
       /\ overlayTimer' = IF ~isOpen' THEN Null
                          ELSE IF opened THEN uptime + OverlayLevelUnits
                          ELSE overlayTimer

\* A render with the overlay state as it is.
Rerender == Effects(input, isWrong, volumeLevel)

\* A timer callback or a drag move has updated the state: React renders
\* within MaxRenderDelay units of the first update that is not rendered yet.
RenderDueAfterUpdate == IF renderDue = Null THEN uptime + MaxRenderDelay ELSE renderDue

\* The React commit of the state updates made by timer callbacks and drag
\* moves; the effects of the commit before have run.  Its own effects run
\* later.
Render ==
    /\ renderDue # Null
    /\ ~EffectsPending
    /\ isOpen' = isAlarmTriggered
    /\ renderedTime' = currentTime
    /\ renderedSetting' = [h |-> settingHour, m |-> settingMinute]
    /\ renderDue' = IF isOpen' # effectOpen \/ renderedSetting' # listenerSetting
                    THEN renderDue ELSE Null
    /\ UNCHANGED <<clockVars, bootTime, uptime, effectOpen, listenerSetting,
                   timeTimer, alarmCheck, input, isWrong, volumeLevel,
                   overlayTimer, wrongTimers, audio, triggerCount>>
    /\ last' = Other

\* The effects of the last commit run: the cleanups and bodies of the
\* effects whose deps changed.
RunEffects ==
    /\ EffectsPending
    /\ effectOpen' = isOpen
    /\ listenerSetting' = renderedSetting
    /\ renderDue' = IF Uncommitted THEN renderDue ELSE Null
    /\ timeTimer' =
         IF effectOpen = isOpen THEN timeTimer
         ELSE IF isSettingMode \/ isOpen THEN Null
         ELSE uptime + ClockTickUnits
    /\ alarmCheck' =
         IF effectOpen = isOpen THEN alarmCheck
         ELSE IF alarmHour = Null \/ alarmMinute = Null \/ isOpen THEN NoPoll
         ELSE [due |-> uptime + PollUnits, h |-> alarmHour, m |-> alarmMinute]
    /\ IF isOpen /\ ~effectOpen
       THEN /\ input' = <<>>
            /\ isWrong' = FALSE
            /\ volumeLevel' = 1
            /\ overlayTimer' = uptime + OverlayLevelUnits
       ELSE /\ UNCHANGED <<input, isWrong, volumeLevel>>
            /\ overlayTimer' = IF isOpen THEN overlayTimer ELSE Null
    /\ UNCHANGED <<clockVars, bootTime, uptime, renderedTime, renderedSetting,
                   isOpen, wrongTimers, audio, triggerCount>>
    /\ last' = Other

\* ------------------------------------------------------------- Clock
\* Math.round of num / den, both non-negative.
Round(num, den) == (2 * num + den) \div (2 * den)

\* ((angle % 360) + 360) % 360, in tenths of a degree.
NormalizeAngle(a) == ((a % 3600) + 3600) % 3600

HourOfAngle(a) == (NormalizeAngle(a) \div 300) % HoursPerDial
MinuteOfHourAngle(a) == Round((NormalizeAngle(a) % 300) * MinutesPerHour, 300)
MinuteOfAngle(a) == Round(NormalizeAngle(a), 60)

\* The alarm hour without the half-day of the clock: the dial value itself.
AlarmHourOfDial(currentHour, sh) == sh

\* confirmAlarm's 24-hour alarm hour.
AlarmHourOf(currentHour, sh) ==
    LET period == currentHour \div HoursPerDial
    IN IF sh = 0 THEN period * HoursPerDial ELSE period * HoursPerDial + sh

TimeDisplay(h, m) ==
    PadStart(ToString(h), 2, "0") \o <<":">> \o PadStart(ToString(m), 2, "0")

\* setInterval(() => setCurrentTime(new Date()), 1000)
ClockTick ==
    /\ timeTimer = uptime
    /\ currentTime' = [h |-> GetHours(Now), m |-> GetMinutes(Now)]
    /\ renderDue' = IF currentTime' = renderedTime THEN renderDue
                    ELSE RenderDueAfterUpdate
    /\ timeTimer' = uptime + ClockTickUnits
    /\ audio' = IF GetSeconds(Now) = 0 THEN initAudio(audio) ELSE audio
    /\ last' = Other
    /\ UNCHANGED <<bootTime, uptime, renderedTime, renderedSetting, effectOpen, listenerSetting, isSettingMode, alarmHour,
                   alarmMinute, isAlarmTriggered, alarmTimeDisplay, settingHour,
                   settingMinute, alarmCheck, isOpen, input, isWrong, volumeLevel,
                   overlayTimer, wrongTimers, triggerCount>>

\* triggerAlarm(): setIsAlarmTriggered(true); startAlarm(...)
triggerAlarm ==
    /\ isAlarmTriggered' = TRUE
    /\ renderDue' = IF isOpen THEN renderDue ELSE RenderDueAfterUpdate
    /\ audio' = startAlarm(audio, uptime)
    /\ triggerCount' = triggerCount + 1
    /\ last' = Op("trigger")

\* checkAlarm, the poll callback: it reads the alarm of the render that
\* created the interval.
checkAlarm ==
    /\ alarmCheck.due = uptime
    /\ alarmCheck' = [alarmCheck EXCEPT !.due = uptime + PollUnits]
    /\ IF /\ GetHours(Now) = alarmCheck.h
          /\ GetMinutes(Now) = alarmCheck.m
          /\ GetSeconds(Now) = 0
       THEN triggerAlarm
       ELSE /\ UNCHANGED <<isAlarmTriggered, renderDue, audio, triggerCount>>
            /\ last' = Other
    /\ UNCHANGED <<bootTime, uptime, currentTime, renderedTime, renderedSetting, effectOpen, listenerSetting,
                   isSettingMode, alarmHour,
                   alarmMinute, alarmTimeDisplay, settingHour, settingMinute,
                   timeTimer, isOpen, input, isWrong, volumeLevel, overlayTimer,
                   wrongTimers>>

\* The Set Alarm button (shown without an alarm, outside setting mode).
startSettingMode ==
    /\ ~isSettingMode /\ alarmTimeDisplay = <<>>
    /\ isSettingMode' = TRUE
    /\ settingHour' = renderedTime.h % HoursPerDial
    /\ settingMinute' = renderedTime.m
    /\ UNCHANGED <<bootTime, uptime, currentTime, alarmHour, alarmMinute,
                   isAlarmTriggered, alarmTimeDisplay, wrongTimers, audio,
                   triggerCount>>
    /\ Rerender
    /\ last' = Other

\* getHourRotation / getMinuteRotation in setting mode, in tenths of a degree:
\* the rotation prop in the closure of the hands' move listeners.
HourRotation == listenerSetting.h * 300 + listenerSetting.m * 5
MinuteRotation == listenerSetting.m * 60

\* ClockHand.handleMouseMove: Math.abs(normalizedAngle - rotation) > 5
MovedSignificantly(a, rotation) ==
    (IF a >= rotation THEN a - rotation ELSE rotation - a) > TickSoundDegrees * 10

\* The frame of a drag move: a listener on window, outside React's events,
\* so its state updates are rendered by a later step.
rotateFrame == <<bootTime, uptime, currentTime, renderedTime, renderedSetting, effectOpen, listenerSetting,
                 isSettingMode, alarmHour, alarmMinute, isAlarmTriggered,
                 alarmTimeDisplay, timeTimer, alarmCheck, isOpen, input, isWrong,
                 volumeLevel, overlayTimer, wrongTimers, triggerCount>>

\* A drag move of the hour hand (isDraggable is isSettingMode; the move is
\* heard on window, also under the overlay): handleMouseMove compares the
\* angle with the rotation in its closure, plays the tick sound for a
\* significant move and then calls onRotate = handleHourRotate.  When
\* playTickSound throws, onRotate is not called.
handleHourRotate(a) ==
    /\ isSettingMode
    /\ LET moved == MovedSignificantly(a, HourRotation)
       IN IF moved /\ initAudioThrows(audio)
          THEN UNCHANGED <<settingHour, settingMinute, audio, renderDue>>
          ELSE /\ settingHour' = HourOfAngle(a)
               /\ settingMinute' = MinuteOfHourAngle(a)
               /\ audio' = IF moved THEN initAudio(audio) ELSE audio
               /\ renderDue' =
                    IF [h |-> settingHour', m |-> settingMinute'] = renderedSetting
                    THEN renderDue ELSE RenderDueAfterUpdate
    /\ UNCHANGED rotateFrame
    /\ last' = Other

handleMinuteRotate(a) ==
    /\ isSettingMode
    /\ LET moved == MovedSignificantly(a, MinuteRotation)
       IN IF moved /\ initAudioThrows(audio)
          THEN UNCHANGED <<settingMinute, audio, renderDue>>
          ELSE /\ settingMinute' = MinuteOfAngle(a)
               /\ audio' = IF moved THEN initAudio(audio) ELSE audio
               /\ renderDue' =
                    IF [h |-> settingHour, m |-> settingMinute'] = renderedSetting
                    THEN renderDue ELSE RenderDueAfterUpdate
    /\ UNCHANGED settingHour
    /\ UNCHANGED rotateFrame
    /\ last' = Other

\* The Confirm button: it reads currentTime, settingHour and settingMinute of
\* the last render.
confirmAlarm ==
    /\ isSettingMode
    /\ LET alarmH == AlarmHourOf(renderedTime.h, renderedSetting.h)
       IN /\ alarmHour' = alarmH
          /\ alarmMinute' = renderedSetting.m
          /\ alarmTimeDisplay' = TimeDisplay(alarmH, renderedSetting.m)
    /\ isSettingMode' = FALSE
    /\ triggerCount' = 0
    /\ UNCHANGED <<bootTime, uptime, currentTime, isAlarmTriggered, settingHour,
                   settingMinute, wrongTimers, audio>>
    /\ Rerender
    /\ last' = Other

\* The Cancel button.
cancelSetting ==
    /\ isSettingMode
    /\ isSettingMode' = FALSE
    /\ UNCHANGED <<bootTime, uptime, currentTime, alarmHour, alarmMinute,
                   isAlarmTriggered, alarmTimeDisplay, settingHour, settingMinute,
                   wrongTimers, audio, triggerCount>>
    /\ Rerender
    /\ last' = Other

\* clearAlarm(): the three setters.
clearAlarm ==
    /\ alarmHour' = Null
    /\ alarmMinute' = Null
    /\ alarmTimeDisplay' = <<>>

\* The Clear Alarm button (shown with an alarm, outside setting mode).
clearAlarmClick ==
    /\ ~isSettingMode /\ alarmTimeDisplay # <<>>
    /\ clearAlarm
    /\ UNCHANGED <<bootTime, uptime, currentTime, isSettingMode, isAlarmTriggered,
                   settingHour, settingMinute, wrongTimers, audio, triggerCount>>
    /\ Rerender
    /\ last' = Other

\* handleAlarmCorrect() without its clearAlarm().
handleAlarmCorrectKeepsAlarm(a) ==
    /\ audio' = stopAlarm(a)
    /\ isAlarmTriggered' = FALSE
    /\ UNCHANGED <<alarmHour, alarmMinute, alarmTimeDisplay>>

\* handleAlarmCorrect() without its stopAlarm().
handleAlarmCorrectKeepsSound(a) ==
    /\ audio' = a
    /\ isAlarmTriggered' = FALSE
    /\ clearAlarm

\* handleAlarmCorrect() without its setIsAlarmTriggered(false).
handleAlarmCorrectKeepsTriggered(a) ==
    /\ audio' = stopAlarm(a)
    /\ UNCHANGED isAlarmTriggered
    /\ clearAlarm

\* handleAlarmCorrect(): stopAlarm(); setIsAlarmTriggered(false); clearAlarm()
handleAlarmCorrect(a) ==
    /\ audio' = stopAlarm(a)
    /\ isAlarmTriggered' = FALSE
    /\ clearAlarm

\* ---------------------------------------------------------- PiOverlay
\* handleInputChange: a change event of the overlay's input carrying text t.
\* On a mismatch playErrorSound() runs first; when it throws, the handler
\* ends there, before setIsWrong, setInput and the completion test: no state
\* is updated and nothing is rendered.
handleInputChange(t) ==
    /\ isOpen
    /\ UNCHANGED <<bootTime, uptime, currentTime, isSettingMode, settingHour,
                   settingMinute, triggerCount>>
    /\ LET digits == DigitsAfterDecimal(t)
           required == RequiredDigits(alarmHour, alarmMinute)
           count == CorrectCount(digits, ExpectedDigits(alarmHour, alarmMinute))
           wrong == IsMismatch(digits, count)
           complete == IsComplete(count, required)
           played == IF wrong THEN initAudio(audio) ELSE audio
       IN IF wrong /\ initAudioThrows(audio)
          THEN /\ UNCHANGED <<wrongTimers, audio, isAlarmTriggered, alarmHour,
                              alarmMinute, alarmTimeDisplay, renderedTime,
                              renderedSetting, renderDue, effectOpen,
                              listenerSetting, timeTimer, alarmCheck, isOpen,
                              input, isWrong, volumeLevel, overlayTimer>>
               /\ last' = [op |-> "input", text |-> t, count |-> count,
                           required |-> required, mismatch |-> wrong,
                           complete |-> FALSE]
          ELSE /\ wrongTimers' = IF wrong THEN wrongTimers + 1 ELSE wrongTimers
               /\ IF complete
                  THEN handleAlarmCorrect(played)
                  ELSE /\ audio' = played
                       /\ UNCHANGED <<isAlarmTriggered, alarmHour, alarmMinute,
                                      alarmTimeDisplay>>
               /\ Effects(t, isWrong \/ wrong, volumeLevel)
               /\ last' = [op |-> "input", text |-> t, count |-> count,
                           required |-> required, mismatch |-> wrong,
                           complete |-> complete]

\* handleInputChange would raise the mismatch feedback for the text t.
IsWrongText(t) ==
    LET digits == DigitsAfterDecimal(t)
    IN IsMismatch(digits, CorrectCount(digits, ExpectedDigits(alarmHour, alarmMinute)))

\* The user changes the text of the overlay's input to t; a wrong text only
\* while fewer than MaxWrongTimers timeouts of earlier ones are pending.
Types(t) ==
    /\ IsWrongText(t) => wrongTimers < MaxWrongTimers
    /\ handleInputChange(t)

\* setTimeout(() => setIsWrong(false), 300)
wrongTimeout ==
    /\ wrongTimers > 0
    /\ wrongTimers' = wrongTimers - 1
    /\ isWrong' = FALSE
    /\ last' = Other
    /\ UNCHANGED <<clockVars, bootTime, uptime, renderedTime, renderedSetting, effectOpen, listenerSetting,
                   renderDue, timeTimer,
                   alarmCheck, isOpen, input, volumeLevel, overlayTimer, audio,
                   triggerCount>>

\* setInterval(() => setVolumeLevel(prev => prev + 1), 10000)
overlayTick ==
    /\ overlayTimer = uptime
    /\ overlayTimer' = uptime + OverlayLevelUnits
    /\ volumeLevel' = volumeLevel + 1
    /\ last' = Other
    /\ UNCHANGED <<clockVars, bootTime, uptime, renderedTime, renderedSetting, effectOpen, listenerSetting,
                   renderDue, timeTimer,
                   alarmCheck, isOpen, input, isWrong, wrongTimers, audio,
                   triggerCount>>

\* ------------------------------------------------------ audio timers
audioFrame == <<clockVars, bootTime, uptime, renderedTime, renderedSetting, effectOpen, listenerSetting,
                renderDue, timeTimer,
                alarmCheck, isOpen,
                input, isWrong, volumeLevel, overlayTimer, wrongTimers,
                triggerCount>>

\* The escalation interval fires.
escalationTick ==
    /\ audio.alarmIntervalId = uptime
    /\ audio' = escalate(audio, uptime)
    /\ last' = Other
    /\ UNCHANGED audioFrame

\* setTimeout(playMelody, notes.length * tempo) of closure k fires; the note
\* timeouts of the round before are due earlier and have run.
melodyTimeout(k) ==
    /\ audio.closures[k].loop
    /\ audio.closures[k].notes = 0
    /\ audio' = playMelody(audio, k)
    /\ last' = Other
    /\ UNCHANGED audioFrame

\* A note timeout of closure k fires: if (alarmGainNode) playTone(freq, 0.15)
noteTimeout(k) ==
    /\ audio.closures[k].notes > 0
    /\ LET a == [audio EXCEPT !.closures[k].notes = @ - 1]
       IN audio' = IF a.alarmGainNode # Null THEN playTone(a) ELSE a
    /\ last' = Other
    /\ UNCHANGED audioFrame

\* --------------------------------------------------------------- time
\* Time passes, up to limit, once every timer due now has run; a beep that
\* was sounding (150 ms, less than a unit) is over.
AdvanceWithin(limit) ==
    /\ uptime < limit
    /\ renderDue = Null \/ uptime < renderDue
    /\ timeTimer # uptime
    /\ alarmCheck.due # uptime
    /\ overlayTimer # uptime
    /\ audio.alarmIntervalId # uptime
    /\ uptime' = uptime + 1
    /\ audio' = beepOver(audio)
    /\ last' = Other
    /\ UNCHANGED <<clockVars, bootTime, renderedTime, renderedSetting, effectOpen, listenerSetting, renderDue,
                   timeTimer,
                   alarmCheck, isOpen, input, isWrong, volumeLevel, overlayTimer,
                   wrongTimers, triggerCount>>

Advance == AdvanceWithin(Horizon)

\* ------------------------------------------------------ specification
\* The state after the page was loaded at one of the times of day bootTimes.
Mounted(bootTimes) ==
    /\ bootTime \in bootTimes
    /\ uptime = 0
    /\ currentTime = [h |-> GetHours(bootTime), m |-> GetMinutes(bootTime)]
    /\ renderedTime = currentTime
    /\ renderDue = Null
    /\ isSettingMode = FALSE
    /\ alarmHour = Null
    /\ alarmMinute = Null
    /\ isAlarmTriggered = FALSE
    /\ alarmTimeDisplay = <<>>
    /\ settingHour = 0
    /\ settingMinute = 0
    /\ renderedSetting = [h |-> settingHour, m |-> settingMinute]
    /\ listenerSetting = renderedSetting
    /\ timeTimer = ClockTickUnits
    /\ alarmCheck = NoPoll
    /\ isOpen = FALSE
    /\ effectOpen = isOpen
    /\ input = <<>>
    /\ isWrong = FALSE
    /\ volumeLevel = 1
    /\ overlayTimer = Null
    /\ wrongTimers = 0
    /\ audio = AudioInit
    /\ triggerCount = 0
    /\ last = Other

Init == Mounted(StartTimes)

\* PiOverlay's 10000 ms interval (overlayTick) is created when the overlay
\* opens and cannot be due within Horizon units, so Next has no step for it;
\* EscalationSpec has.
\* The user sets an alarm with the minute hand, clears it and types; the
\* hour hand and the Cancel button are used in SettingSpec.
Next ==
    \/ Advance
    \/ ClockTick
    \/ checkAlarm
    \/ Render
    \/ RunEffects
    \/ startSettingMode
    \/ \E a \in MinuteAngles : handleMinuteRotate(a)
    \/ confirmAlarm
    \/ clearAlarmClick
    \/ \E t \in TypedTexts : Types(t)
    \/ wrongTimeout
    \/ escalationTick
    \/ \E k \in 1..Len(audio.closures) : melodyTimeout(k)
    \/ \E k \in 1..Len(audio.closures) : noteTimeout(k)

Spec == Init /\ [][Next]_vars

\* ------------------------------------------------- setting specification
\* The clock with the user setting, confirming, cancelling and clearing
\* alarms and nobody typing: the page may be loaded just before midnight, and
\* the minute hand may be dragged to 358 degrees.
SettingInit == Mounted(SettingStartTimes)

SettingNext ==
    \/ Advance
    \/ ClockTick
    \/ checkAlarm
    \/ Render
    \/ RunEffects
    \/ startSettingMode
    \/ \E a \in HourAngles : handleHourRotate(a)
    \/ \E a \in SettingMinuteAngles : handleMinuteRotate(a)
    \/ confirmAlarm
    \/ cancelSetting
    \/ clearAlarmClick
    \/ escalationTick
    \/ \E k \in 1..Len(audio.closures) : melodyTimeout(k)
    \/ \E k \in 1..Len(audio.closures) : noteTimeout(k)

SettingSpec == SettingInit /\ [][SettingNext]_vars

\* ------------------------------------------------- verifier specification
\* The digit verifier on its own: an alarm has fired (time is counted from
\* that moment, at which the clock had ticked and the poll called
\* triggerAlarm) and the render that shows the overlay is committed; its
\* effects run at some point, and the user edits the input before or after
\* that: a character typed at the end, a backspace, or a paste replacing the
\* text.
Alphabet == {"3", ".", "1", "4", "x"}

PastedTexts == { <<"3", ".", "1", "4", "1">>, <<"1", "4", "1", "4">> }

\* The alarms of VerifierInit, <<hour, minute>>.
VerifierAlarms == { <<0, 0>>, <<0, 1>>, <<0, 2>>, <<0, 3>>, <<7, 15>> }

EditsOf(text) ==
    { Append(text, c) : c \in IF Len(text) < MaxTextLen THEN Alphabet ELSE {} }
    \cup { SubSeq(text, 1, Len(text) - 1) : x \in IF text # <<>> THEN {0} ELSE {} }
    \cup PastedTexts

VerifierInit ==
    \E cfg \in VerifierAlarms :
        /\ bootTime = TimeOfDay(cfg[1], cfg[2], 0, 0)
        /\ uptime = 0
        /\ currentTime = [h |-> GetHours(bootTime), m |-> GetMinutes(bootTime)]
        /\ renderedTime = currentTime
        /\ renderDue = MaxRenderDelay
        /\ isSettingMode = FALSE
        /\ alarmHour = cfg[1]
        /\ alarmMinute = cfg[2]
        /\ isAlarmTriggered = TRUE
        /\ alarmTimeDisplay = TimeDisplay(cfg[1], cfg[2])
        /\ settingHour = GetHours(bootTime) % HoursPerDial
        /\ settingMinute = GetMinutes(bootTime)
        /\ renderedSetting = [h |-> settingHour, m |-> settingMinute]
        /\ listenerSetting = renderedSetting
        /\ timeTimer = ClockTickUnits
        /\ alarmCheck = [due |-> PollUnits, h |-> cfg[1], m |-> cfg[2]]
        /\ isOpen = TRUE
        /\ effectOpen = FALSE
        /\ input = <<>>
        /\ isWrong = FALSE
        /\ volumeLevel = 1
        /\ overlayTimer = Null
        /\ wrongTimers = 0
        /\ audio = startAlarm(AudioInit, 0)
        /\ triggerCount = 1
        /\ last = Other

VerifierNext ==
    \/ RunEffects
    \/ \E t \in EditsOf(input) : Types(t)
    \/ wrongTimeout

VerifierSpec == VerifierInit /\ [][VerifierNext]_vars

\* --------------------------------------------------- silent specification
\* The clock in a browser without an audio backend: every initAudio() throws.
\* The timers of the alarm sound are never created, and a drag of more than
\* 5 degrees at once is lost, so the minute hand is moved in a smaller step
\* (9 degrees, from the 6 degrees of minute 1) as well.
SilentAngles == SettingMinuteAngles \cup {90}

\* The texts of Spec and "3.141", which has a digit more than 00:02 requires.
SilentTexts == TypedTexts \cup { <<"3", ".", "1", "4", "1">> }

SilentInit ==
    /\ bootTime \in StartTimes
    /\ uptime = 0
    /\ currentTime = [h |-> GetHours(bootTime), m |-> GetMinutes(bootTime)]
    /\ renderedTime = currentTime
    /\ renderDue = Null
    /\ isSettingMode = FALSE
    /\ alarmHour = Null
    /\ alarmMinute = Null
    /\ isAlarmTriggered = FALSE
    /\ alarmTimeDisplay = <<>>
    /\ settingHour = 0
    /\ settingMinute = 0
    /\ renderedSetting = [h |-> settingHour, m |-> settingMinute]
    /\ listenerSetting = renderedSetting
    /\ timeTimer = ClockTickUnits
    /\ alarmCheck = NoPoll
    /\ isOpen = FALSE
    /\ effectOpen = isOpen
    /\ input = <<>>
    /\ isWrong = FALSE
    /\ volumeLevel = 1
    /\ overlayTimer = Null
    /\ wrongTimers = 0
    /\ audio = AudioUnavailable
    /\ triggerCount = 0
    /\ last = Other

SilentNext ==
    \/ Advance
    \/ ClockTick
    \/ checkAlarm
    \/ Render
    \/ RunEffects
    \/ startSettingMode
    \/ \E a \in HourAngles : handleHourRotate(a)
    \/ \E a \in SilentAngles : handleMinuteRotate(a)
    \/ confirmAlarm
    \/ cancelSetting
    \/ clearAlarmClick
    \/ \E t \in SilentTexts : Types(t)

SilentSpec == SilentInit /\ [][SilentNext]_vars

\* ----------------------------------------------- escalation specification
\* Seventy seconds from the moment an alarm for 00:01 has fired and the
\* overlay has opened: time passes, the escalation interval, the overlay's
\* interval and the melody's timeouts run, and the user, who is at the clock
\* at the instants UserTimes, types, dismisses and sets the alarm again with
\* the minute hand; the poll fires it at 00:02:00.
EscalationAlarm == <<0, 1>>

\* The drag of the minute hand to 12 degrees (minute 2); the text "3.", which
\* has no digit yet, and the text "3.1", which completes the alarm of 00:01
\* and not the one of 00:02.
EscalationAngles == {120}
EscalationTexts == { <<"3", ".">>, <<"3", ".", "1">> }

\* The instants, in units from the trigger, at which the user of
\* EscalationSpec acts: at the level changes to 2 and to 4 and one unit later.
UserTimes == {20, 21, 60, 61}

EscalationInit ==
    /\ bootTime = TimeOfDay(EscalationAlarm[1], EscalationAlarm[2], 0, 0)
    /\ uptime = 0
    /\ currentTime = [h |-> GetHours(bootTime), m |-> GetMinutes(bootTime)]
    /\ renderedTime = currentTime
    /\ renderDue = Null
    /\ isSettingMode = FALSE
    /\ alarmHour = EscalationAlarm[1]
    /\ alarmMinute = EscalationAlarm[2]
    /\ isAlarmTriggered = TRUE
    /\ alarmTimeDisplay = TimeDisplay(EscalationAlarm[1], EscalationAlarm[2])
    /\ settingHour = GetHours(bootTime) % HoursPerDial
    /\ settingMinute = GetMinutes(bootTime)
    /\ renderedSetting = [h |-> settingHour, m |-> settingMinute]
    /\ listenerSetting = renderedSetting
    /\ timeTimer = Null
    /\ alarmCheck = NoPoll
    /\ isOpen = TRUE
    /\ effectOpen = isOpen
    /\ input = <<>>
    /\ isWrong = FALSE
    /\ volumeLevel = 1
    /\ overlayTimer = OverlayLevelUnits
    /\ wrongTimers = 0
    /\ audio = startAlarm(AudioInit, 0)
    /\ triggerCount = 1
    /\ last = Other

EscalationNext ==
    \/ AdvanceWithin(EscalationHorizon)
    \/ ClockTick
    \/ checkAlarm
    \/ Render
    \/ RunEffects
    \/ uptime \in UserTimes /\ startSettingMode
    \/ uptime \in UserTimes /\ \E a \in EscalationAngles : handleMinuteRotate(a)
    \/ uptime \in UserTimes /\ confirmAlarm
    \/ uptime \in UserTimes /\ \E t \in EscalationTexts : Types(t)
    \/ escalationTick
    \/ overlayTick
    \/ \E k \in 1..Len(audio.closures) : melodyTimeout(k)
    \/ \E k \in 1..Len(audio.closures) : noteTimeout(k)

EscalationSpec == EscalationInit /\ [][EscalationNext]_vars

\* ---------------------------------------------- dismissal specification
\* EscalationSpec with the input event that carries "3." and the first
\* requiredDigits digits of pi for the alarm that is ringing, at any time.
DismissNext ==
    \/ EscalationNext
    \/ Types(ThreePointPi(RequiredDigits(alarmHour, alarmMinute)))

DismissSpec == EscalationInit /\ [][DismissNext]_vars

\* --------------------------------------------------- melody specification
\* The alarm sound of one alarm: seventy seconds from the moment the alarm for
\* 00:01 has fired, with the melody loop (playMelody and its note timeouts),
\* the escalation interval and the overlay's interval; the user may type and
\* dismiss the alarm at any time, after which the clock ticks again and the
\* melody's timeouts still run.
MelodyNext ==
    \/ AdvanceWithin(EscalationHorizon)
    \/ ClockTick
    \/ Render
    \/ \E t \in EscalationTexts : Types(t)
    \/ escalationTick
    \/ overlayTick
    \/ \E k \in 1..Len(audio.closures) : melodyTimeout(k)
    \/ \E k \in 1..Len(audio.closures) : noteTimeout(k)

MelodySpec == EscalationInit /\ [][MelodyNext]_vars

\* ------------------------------------------------------ day specification
\* A day and a little more of an Armed alarm, with nobody at the clock.  The
\* page was loaded at 00:02:00.5 and the alarm was set at once: Set Alarm,
\* then Confirm for 00:02, or a drag of the minute hand to 358 degrees (which
\* plays the tick sound) and Confirm for 00:60.  Timers that are due run and
\* time passes: the clock and the poll make fair progress.  Time has no end:
\* after a day the origin of uptime is moved by a day, which keeps every
\* Date and every difference of times as it is.
DayMinutes == {2, 60}

\* uptime is counted from a moment a day later.
NextDay ==
    /\ uptime = DayUnits
    /\ uptime' = 0
    /\ timeTimer' = IF timeTimer = Null THEN Null ELSE timeTimer - DayUnits
    /\ alarmCheck' = IF alarmCheck.due = Null THEN alarmCheck
                     ELSE [alarmCheck EXCEPT !.due = @ - DayUnits]
    /\ overlayTimer' = IF overlayTimer = Null THEN Null ELSE overlayTimer - DayUnits
    /\ renderDue' = IF renderDue = Null THEN Null ELSE renderDue - DayUnits
    /\ audio' = [audio EXCEPT
                   !.alarmIntervalId = IF @ = Null THEN Null ELSE @ - DayUnits,
                   !.closures = [k \in 1..Len(@) |->
                                   [@[k] EXCEPT !.startTime = @ - DayUnits]]]
    /\ last' = Other
    /\ UNCHANGED <<clockVars, bootTime, renderedTime, renderedSetting, effectOpen, listenerSetting, isOpen, input,
                   isWrong,
                   volumeLevel, wrongTimers, triggerCount>>

DayInit ==
    /\ bootTime = TimeOfDay(0, 2, 0, 1)
    /\ uptime = 0
    /\ currentTime = [h |-> GetHours(bootTime), m |-> GetMinutes(bootTime)]
    /\ renderedTime = currentTime
    /\ renderDue = Null
    /\ isSettingMode = FALSE
    /\ alarmHour = AlarmHourOf(currentTime.h, currentTime.h % HoursPerDial)
    /\ alarmMinute \in DayMinutes
    /\ isAlarmTriggered = FALSE
    /\ alarmTimeDisplay = TimeDisplay(alarmHour, alarmMinute)
    /\ settingHour = currentTime.h % HoursPerDial
    /\ settingMinute = alarmMinute
    /\ renderedSetting = [h |-> settingHour, m |-> settingMinute]
    /\ listenerSetting = renderedSetting
    /\ timeTimer = ClockTickUnits
    /\ alarmCheck = [due |-> PollUnits, h |-> alarmHour, m |-> alarmMinute]
    /\ isOpen = FALSE
    /\ effectOpen = isOpen
    /\ input = <<>>
    /\ isWrong = FALSE
    /\ volumeLevel = 1
    /\ overlayTimer = Null
    /\ wrongTimers = 0
    /\ audio = IF alarmMinute = currentTime.m THEN AudioInit ELSE initAudio(AudioInit)
    /\ triggerCount = 0
    /\ last = Other

DayNext ==
    \/ AdvanceWithin(DayUnits)
    \/ NextDay
    \/ ClockTick
    \/ checkAlarm
    \/ Render
    \/ RunEffects

DaySpec == DayInit /\ [][DayNext]_vars /\ WF_vars(DayNext)

\* ------------------------------------------------------------- claims
\* The length of the longest prefix of digits that equals PI_DIGITS position
\* by position: the index of the first position that differs.
MatchLength(digits) ==
    LET n == Min(Len(digits), Len(PI_DIGITS))
        same == {k \in 0..n : \A i \in 1..k : digits[i] = PI_DIGITS[i]}
    IN CHOOSE k \in same : \A j \in same : j <= k

\* C1: once the alarm has been dismissed (it is not Triggered), no alarm
\* callback is pending: no escalation interval, no note timeout and no
\* playMelody timeout.
C1_NoCallbackAfterDismissal ==
    ~isAlarmTriggered => PendingAlarmCallbacks(audio) = 0

\* C2: the escalation interval is running exactly while the alarm is Triggered.
C2_TimerIffTriggered ==
    (audio.alarmIntervalId # Null) <=> isAlarmTriggered

\* C2 witness: Triggered, with the interval re-armed by one of its own ticks.
C2_Witness ==
    /\ isAlarmTriggered
    /\ audio.alarmIntervalId # Null
    /\ audio.alarmIntervalId
         > audio.closures[Len(audio.closures)].startTime + EscalationTickUnits

\* C3: after an input event that is complete, the alarm is Idle: not
\* Triggered, the escalation interval cleared, alarmHour, alarmMinute and
\* alarmTimeDisplay cleared, and no poll left to fire for that alarm.
C3_CompleteEntryDismisses ==
    (last.op = "input" /\ last.complete) =>
        /\ ~isAlarmTriggered
        /\ ~isOpen
        /\ audio.alarmIntervalId = Null
        /\ alarmHour = Null
        /\ alarmMinute = Null
        /\ alarmTimeDisplay = <<>>
        /\ alarmCheck = NoPoll

\* C3 witness: a complete entry of at least one required digit was handled.
C3_Witness ==
    /\ last.op = "input"
    /\ last.complete
    /\ last.required >= 1
    /\ last.count = last.required

\* C4: an input event invokes onCorrect exactly when the text's longest
\* prefix matching pi has at least requiredDigits digits, and a step leaves
\* Triggered only if it is such an input event.
C4_OnlyCompleteEntryLeavesTriggered ==
    [][ /\ last'.op = "input" =>
             /\ last'.complete <=>
                  (MatchLength(DigitsAfterDecimal(last'.text))
                     >= RequiredDigits(alarmHour, alarmMinute))
             /\ last'.complete <=> (isAlarmTriggered /\ ~isAlarmTriggered')
        /\ (isAlarmTriggered /\ ~isAlarmTriggered') =>
             (last'.op = "input" /\ last'.complete)
      ]_vars

\* C4 witness: a partial entry (one correct digit of two) left the alarm
\* Triggered.
C4_Witness ==
    /\ last.op = "input"
    /\ ~last.complete
    /\ last.count = 1
    /\ last.required = 2
    /\ isAlarmTriggered

\* C5: triggerAlarm is called only by a poll that reads the alarm's hour and
\* minute at second 0, and at most once for an armed alarm.
C5_TriggerOncePerMinute ==
    /\ last.op = "trigger" =>
         /\ GetHours(Now) = alarmHour
         /\ GetMinutes(Now) = alarmMinute
         /\ GetSeconds(Now) = 0
    /\ triggerCount <= 1

\* C6: a stored alarm has its hour in 0..23 and its minute in 0..59.
C6_AlarmConfigInRange ==
    (alarmHour # Null \/ alarmMinute # Null) =>
        /\ alarmHour \in 0..(HoursPerDay - 1)
        /\ alarmMinute \in 0..(MinutesPerHour - 1)

\* C7: requiredDigits is hour * 100 + minute of the stored alarm, 0 without
\* one, and lies in 0..2359.
C7_RequiredDigitsIsHHMM ==
    LET r == RequiredDigits(alarmHour, alarmMinute)
    IN /\ r = IF alarmHour # Null /\ alarmMinute # Null
              THEN alarmHour * 100 + alarmMinute ELSE 0
       /\ 0 <= r
       /\ r <= 2359

\* C8: for an input event whose entry has its first digit differing from pi
\* at index k, the count of the dismissal decision is k, and so is the
\* progress shown while the overlay stays open with the entry in its buffer.
C8_CountIsFirstMismatchIndex ==
    last.op = "input" =>
        LET digits == DigitsAfterDecimal(last.text)
            k == MatchLength(digits)
        IN k < Len(digits) =>
             /\ last.count = k
             /\ (isOpen /\ input = last.text) =>
                  ProgressOf(input, alarmHour, alarmMinute) = k

\* C8 with the cap of expectedDigits: for such an entry the count of the
\* dismissal decision is the smaller of k and requiredDigits.
C8_CountIsCappedMismatchIndex ==
    last.op = "input" =>
        LET digits == DigitsAfterDecimal(last.text)
            k == MatchLength(digits)
        IN k < Len(digits) =>
             /\ last.count = Min(k, last.required)
             /\ (isOpen /\ input = last.text) =>
                  ProgressOf(input, alarmHour, alarmMinute) = k

\* C9: the text "3." + P, P the first L digits of pi, gives the count L and
\* is complete whenever L >= requiredDigits.
C9_PrefixOfPiCountsItsLength ==
    last.op = "input" =>
        \A n \in 0..Len(last.text) :
            last.text = ThreePointPi(n) =>
                /\ last.count = n
                /\ n >= last.required => last.complete

\* C9 with the cap of expectedDigits: the text gives the count
\* min(L, requiredDigits) and is complete whenever L >= requiredDigits.
C9_PrefixOfPiCountsCappedLength ==
    last.op = "input" =>
        \A n \in 0..Len(last.text) :
            last.text = ThreePointPi(n) =>
                /\ last.count = Min(n, last.required)
                /\ n >= last.required => last.complete

\* C10: an input event raises the mismatch feedback exactly when the entry
\* is non-empty and its longest prefix matching pi is shorter than the entry.
C10_MismatchIffWrongDigit ==
    last.op = "input" =>
        LET digits == DigitsAfterDecimal(last.text)
        IN last.mismatch <=> (Len(digits) > 0 /\ MatchLength(digits) < Len(digits))

\* What the normalization is to keep of a text: its digits, in order, after
\* the removal of one leading "3".
DigitsOfEntry(t) ==
    SelectSeq(IF t # <<>> /\ t[1] = "3" THEN Tail(t) ELSE t, IsDigit)

\* What an input event with text t computes against required digits.
EventResult(t, required) ==
    LET digits == DigitsAfterDecimal(t)
        count == CorrectCount(digits, Substring0(PI_DIGITS, required))
    IN [count |-> count, mismatch |-> IsMismatch(digits, count),
        complete |-> IsComplete(count, required)]

\* What the last input event computed.
LastResult ==
    [count |-> last.count, mismatch |-> last.mismatch, complete |-> last.complete]

\* C11: the normalization of a text is its digits D after the removal of one
\* leading "3", in order, and the event gives the same count, mismatch flag
\* and completion as the texts "3." + D and "3" + D: a "3." or "3" prefix and
\* non-digit characters after the first character change nothing.
C11_NormalizationKeepsDigits ==
    last.op = "input" =>
        LET D == DigitsOfEntry(last.text)
        IN /\ DigitsAfterDecimal(last.text) = D
           /\ LastResult = EventResult(<<"3", ".">> \o D, last.required)
           /\ LastResult = EventResult(<<"3">> \o D, last.required)

\* C11 witness: the text "3x14", a non-digit after the first character, was
\* counted as the two digits 1, 4.
C11_Witness ==
    /\ last.op = "input"
    /\ last.text = <<"3", "x", "1", "4">>
    /\ last.count = 2

\* C12: after an input event the buffer is the text of the event; the count
\* depends on that text alone; a wrong digit appended to k correct digits
\* (k < requiredDigits) leaves count and progress at k, raises the mismatch
\* feedback and keeps the overlay open; an entry of k + 1 correct digits
\* (the wrong digit replaced, k + 1 <= requiredDigits) has count k + 1 and
\* raises no feedback.
C12_WrongDigitKeepsProgress ==
    [][ last'.op = "input" =>
          LET before == DigitsAfterDecimal(input)
              after == DigitsAfterDecimal(last'.text)
              k == MatchLength(before)
              n == MatchLength(after)
          IN /\ input' = last'.text
             /\ last'.count = Min(n, last'.required)
             /\ (/\ k = Len(before) /\ k < last'.required
                 /\ Len(after) = k + 1 /\ n = k
                 /\ SubSeq(after, 1, k) = before)
                  => /\ last'.count = k
                     /\ last'.mismatch
                     /\ isOpen'
                     /\ ProgressOf(input', alarmHour', alarmMinute') = k
             /\ (n = Len(after) /\ n <= last'.required)
                  => /\ last'.count = n
                     /\ ~last'.mismatch
      ]_vars

\* C12 for an input event that finds the effects of the overlay's opening
\* run: the same property.  (In between the commit that shows the overlay
\* and its effects, the event's text is overwritten by the effect's
\* setInput('').)
C12_WrongDigitKeepsProgressOnceReset ==
    [][ (last'.op = "input" /\ effectOpen = isOpen) =>
          LET before == DigitsAfterDecimal(input)
              after == DigitsAfterDecimal(last'.text)
              k == MatchLength(before)
              n == MatchLength(after)
          IN /\ input' = last'.text
             /\ last'.count = Min(n, last'.required)
             /\ (/\ k = Len(before) /\ k < last'.required
                 /\ Len(after) = k + 1 /\ n = k
                 /\ SubSeq(after, 1, k) = before)
                  => /\ last'.count = k
                     /\ last'.mismatch
                     /\ isOpen'
                     /\ ProgressOf(input', alarmHour', alarmMinute') = k
             /\ (n = Len(after) /\ n <= last'.required)
                  => /\ last'.count = n
                     /\ ~last'.mismatch
      ]_vars

\* The closure of the startAlarm call whose interval is the current one.
Running == audio.closures[Len(audio.closures)]

\* The time of the last tick of the escalation interval (of the startAlarm
\* call before the first tick).
LastTick == audio.alarmIntervalId - EscalationTickUnits

\* The time units of one escalation level.
LevelUnits == SecondsPerLevel * UnitsPerSecond

\* C13: the onVolumeChange calls of a startAlarm call are 2, 3, 4, ... in
\* this order, the call with level i + 1 made i * 10 seconds after the
\* startAlarm call; while the interval runs, after each tick the level is
\* floor(elapsed / 10) + 1 and one call was made per level change; after the
\* tick of second 35 the calls are exactly 2 at 10 s, 3 at 20 s, 4 at 30 s.
C13_LevelFollowsElapsedTime ==
    /\ \A k \in 1..Len(audio.closures) :
          LET c == audio.closures[k]
          IN /\ c.volumeLevel = Len(c.reported) + 1
             /\ \A i \in 1..Len(c.reported) :
                   /\ c.reported[i].level = i + 1
                   /\ c.reported[i].at = i * LevelUnits
    /\ (isAlarmTriggered /\ audio.alarmIntervalId # Null) =>
          /\ Running.volumeLevel = LevelAt(LastTick, Running.startTime)
          /\ (LastTick - Running.startTime = 35 * UnitsPerSecond) =>
                Running.reported = << [level |-> 2, at |-> 10 * UnitsPerSecond],
                                      [level |-> 3, at |-> 20 * UnitsPerSecond],
                                      [level |-> 4, at |-> 30 * UnitsPerSecond] >>

\* C13 witness: Triggered for 35 seconds, the tick of second 35 has run.
C13_Witness ==
    /\ isAlarmTriggered
    /\ audio.alarmIntervalId # Null
    /\ LastTick - Running.startTime = 35 * UnitsPerSecond
    /\ Len(Running.reported) = 3

\* The level and the onVolumeChange calls of every startAlarm call.
LevelsOf(a) ==
    [k \in 1..Len(a.closures) |->
        [level |-> a.closures[k].volumeLevel, reported |-> a.closures[k].reported]]

\* C14: once the alarm is dismissed, no step changes the level or the
\* onVolumeChange calls of a startAlarm call already made, and no step
\* other than the next trigger changes the gain; the level and calls of a
\* startAlarm call that a later one has replaced never change either.
C14_NoEscalationAfterDismissal ==
    [][ /\ \A k \in 1..Len(audio.closures) :
             (~isAlarmTriggered \/ k < Len(audio.closures)) =>
                 /\ k <= Len(audio'.closures)
                 /\ LevelsOf(audio')[k] = LevelsOf(audio)[k]
        /\ (~isAlarmTriggered /\ last'.op # "trigger") =>
             /\ audio'.alarmGainNode = audio.alarmGainNode
             /\ audio'.alarmIntervalId = Null
      ]_vars

\* C14 witness: the alarm was dismissed and the next level change of its
\* startAlarm call has since come due.
C14_Witness ==
    /\ ~isAlarmTriggered
    /\ Len(audio.closures) >= 1
    /\ LevelAt(uptime, Running.startTime) > Running.volumeLevel

\* C20: the level of every startAlarm call and the level of the overlay are
\* at least 1; a trigger starts its level at 1 with no onVolumeChange call
\* made, whatever the level the alarm before it had reached; the first call
\* of every startAlarm call is for level 2; and for the first ten seconds
\* after a trigger the overlay, when shown, shows level 1.
C20_LevelRestartsAtOne ==
    /\ volumeLevel >= 1
    /\ \A k \in 1..Len(audio.closures) :
          LET c == audio.closures[k]
          IN /\ c.volumeLevel >= 1
             /\ c.reported # <<>> => c.reported[1].level = 2
    /\ last.op = "trigger" =>
          /\ Running.volumeLevel = 1
          /\ Running.reported = <<>>
    /\ (isAlarmTriggered /\ isOpen /\ uptime - Running.startTime < OverlayLevelUnits) =>
          volumeLevel = 1

\* C20 for the audio level, and for the overlay once the effects of its
\* opening have run: the same property, the overlay's level being 1 in the
\* first ten seconds after a trigger from the run of those effects on.
C20_LevelRestartsAtOneOnceReset ==
    /\ volumeLevel >= 1
    /\ \A k \in 1..Len(audio.closures) :
          LET c == audio.closures[k]
          IN /\ c.volumeLevel >= 1
             /\ c.reported # <<>> => c.reported[1].level = 2
    /\ last.op = "trigger" =>
          /\ Running.volumeLevel = 1
          /\ Running.reported = <<>>
    /\ (/\ isAlarmTriggered /\ isOpen /\ effectOpen
        /\ uptime - Running.startTime < OverlayLevelUnits) =>
          volumeLevel = 1

\* C15: in every state of the audio module, stopAlarm() leaves no interval
\* handle and an empty oscillator list, makes no onVolumeChange call and
\* schedules nothing, and a second call right after it changes nothing;
\* called before any startAlarm it changes nothing at all.
C15_StopAlarmIdempotent ==
    LET once == stopAlarm(audio)
        twice == stopAlarm(once)
    IN /\ once.alarmIntervalId = Null
       /\ once.alarmOscillators = 0
       /\ twice = once
       /\ LevelsOf(once) = LevelsOf(audio)
       /\ PendingTimeouts(once.closures, Len(once.closures))
            = PendingTimeouts(audio.closures, Len(audio.closures))
       /\ audio.closures = <<>> => once = audio

\* C15 witness: handleAlarmCorrect has just called stopAlarm() on a started
\* alarm: the interval and the oscillators are gone, the gain is 0, and the
\* state is one that another call leaves as it is.
C15_Witness ==
    /\ last.op = "input"
    /\ last.complete
    /\ Len(audio.closures) >= 1
    /\ audio.alarmGainNode = 0
    /\ audio.alarmIntervalId = Null
    /\ audio.alarmOscillators = 0
    /\ stopAlarm(audio) = audio

\* C16: without an audio backend a matching poll still makes the alarm
\* Triggered, every input event still stores its text and is still tested
\* for completion (onCorrect is called exactly when the count reaches
\* requiredDigits), and a complete entry still dismisses and clears the alarm.
C16_SilentAlarmStillWorks ==
    /\ last.op = "trigger" => isAlarmTriggered
    /\ last.op = "input" =>
          /\ input = last.text
          /\ last.complete <=> IsComplete(last.count, last.required)
          /\ last.complete =>
                (~isAlarmTriggered /\ alarmHour = Null /\ alarmMinute = Null)

\* The alarm is Armed: an alarm is stored and it is not Triggered.
Armed == alarmHour # Null /\ alarmMinute # Null /\ ~isAlarmTriggered

\* C17: an Armed alarm eventually becomes Triggered.
C17_ArmedEventuallyTriggered == Armed ~> isAlarmTriggered

\* C17 for an alarm with a minute below 60: confirmed half a second after
\* its h:m:00, it is not fired during the rest of the day and is fired at
\* the h:m:00 of the next day.
C17_ValidAlarmFiresNextDay ==
    /\ [](last.op = "trigger" =>
            /\ GetHours(Now) = alarmHour
            /\ GetMinutes(Now) = alarmMinute
            /\ GetSeconds(Now) = 0
            /\ triggerCount = 1 => uptime = DayUnits - 1)
    /\ (Armed /\ alarmMinute < MinutesPerHour) ~> isAlarmTriggered

\* C18: the alarm is Triggered only while an alarm is stored.
C18_TriggeredOnlyWithConfig ==
    isAlarmTriggered => (alarmHour # Null /\ alarmMinute # Null)

\* C19: while no alarm is stored or the alarm is Triggered, no poll fires
\* the alarm: no step calls triggerAlarm, which would restart the escalation
\* timer.
C19_NoTriggerWhenIdleOrTriggered ==
    [][ (alarmHour = Null \/ alarmMinute = Null \/ isAlarmTriggered) =>
            last'.op # "trigger"
      ]_vars

\* stopAlarm has run since the last startAlarm (or no alarm has sounded
\* yet): startAlarm creates the escalation interval, stopAlarm alone clears it.
Stopped == audio.alarmIntervalId = Null

\* C21: from stopAlarm until the next startAlarm the alarm gain is 0 (tones
\* played by leftover note callbacks go through it and are silent) and no
\* beep is sounding.
C21_SilentAfterStop ==
    Stopped => (audio.alarmGainNode \in {Null, 0} /\ ~audio.beeping)

\* C21 for the gain alone: from stopAlarm until the next startAlarm the
\* alarm gain is 0, whatever leftover note callbacks run.
C21_GainZeroAfterStop ==
    Stopped => audio.alarmGainNode \in {Null, 0}

\* The level of the current alarm's closure, 0 before the first alarm.
LevelOf(a) ==
    IF a.closures = <<>> THEN 0 ELSE a.closures[Len(a.closures)].volumeLevel

\* A step in which the escalation interval changes the level.
LevelChanges ==
    /\ Len(audio'.closures) = Len(audio.closures)
    /\ LevelOf(audio') # LevelOf(audio)

\* C22: every change of the escalation level sets the gain
\* min(30 + 15 * level, 100) hundredths, which is strictly greater than the
\* gain before it, and the gain never exceeds 1.0.
C22_EachLevelLouder ==
    [][ /\ LevelChanges =>
             /\ audio'.alarmGainNode
                  = Min(InitialGain + GainPerLevel * LevelOf(audio'), MaxGain)
             /\ audio'.alarmGainNode > audio.alarmGainNode
        /\ audio'.alarmGainNode <= MaxGain
      ]_vars

\* C22 up to the maximal gain: every change of the level sets the gain
\* min(30 + 15 * level, 100), never lower than the gain before it and
\* strictly greater while the gain before it was below 1.0; the gain never
\* exceeds 1.0.
C22_LouderUntilMaxGain ==
    [][ /\ LevelChanges =>
             /\ audio'.alarmGainNode
                  = Min(InitialGain + GainPerLevel * LevelOf(audio'), MaxGain)
             /\ audio'.alarmGainNode >= audio.alarmGainNode
             /\ audio.alarmGainNode < MaxGain
                  => audio'.alarmGainNode > audio.alarmGainNode
        /\ audio'.alarmGainNode <= MaxGain
      ]_vars

\* The playAlarmBeep calls of the current alarm's closure.
BeepsOf(a) ==
    IF a.closures = <<>> THEN 0 ELSE a.closures[Len(a.closures)].beeps

\* A step in which playMelody of the current alarm's closure starts a round.
MelodyRoundStarts ==
    /\ Len(audio'.closures) = Len(audio.closures)
    /\ audio.closures # <<>>
    /\ audio'.closures[Len(audio.closures)].notes
         > audio.closures[Len(audio.closures)].notes

\* C23: the escalation tick calls playAlarmBeep once when it changes the
\* level to 4 or more, no beep is made for a change to a lower level or by
\* any other step, and a round of the melody loop has the 6 notes exactly
\* when the level is 4 or more, the 4 notes otherwise.
C23_AggressiveTierFromLevelFour ==
    [][ /\ LevelChanges =>
             BeepsOf(audio') = BeepsOf(audio)
                 + (IF LevelOf(audio') >= 4 THEN 1 ELSE 0)
        /\ (Len(audio'.closures) = Len(audio.closures) /\ ~LevelChanges) =>
             BeepsOf(audio') = BeepsOf(audio)
        /\ MelodyRoundStarts =>
             /\ audio'.closures[Len(audio.closures)].pattern
                  = IF LevelOf(audio) >= 4 THEN 6 ELSE 4
             /\ audio'.closures[Len(audio.closures)].notes
                  = audio'.closures[Len(audio.closures)].pattern
      ]_vars

\* C23 witness: the level is 5 after two beeps (at levels 4 and 5), and the
\* melody loop has started a round of 6 notes of which 3 are still pending.
C23_Witness ==
    /\ isAlarmTriggered
    /\ LevelOf(audio) = 5
    /\ BeepsOf(audio) = 2
    /\ audio.closures[Len(audio.closures)].pattern = 6
    /\ audio.closures[Len(audio.closures)].notes = 3

\* The startAlarm calls whose melody loop is alive: a playMelody timeout of
\* theirs is pending.
ActiveLoops(a) == {k \in 1..Len(a.closures) : a.closures[k].loop}

\* C24: while the alarm is Triggered exactly one melody loop and exactly one
\* escalation interval are active, the ones of the last startAlarm.
C24_OneLoopOneInterval ==
    isAlarmTriggered =>
        /\ ActiveLoops(audio) = {Len(audio.closures)}
        /\ audio.alarmIntervalId # Null

\* C24 for the interval alone: while the alarm is Triggered the one
\* escalation interval is active, and its ticks belong to the last startAlarm.
C24_OneInterval ==
    isAlarmTriggered =>
        /\ audio.alarmIntervalId # Null
        /\ audio.alarmIntervalId
             <= uptime + EscalationTickUnits
        /\ (audio.alarmIntervalId - audio.closures[Len(audio.closures)].startTime)
             % EscalationTickUnits = 0

\* Every timer of the two levels that is due now has run.
LevelTimersSettled ==
    overlayTimer # uptime /\ audio.alarmIntervalId # uptime

\* C25: while the alarm is Triggered and its overlay is shown, once the
\* timers due now have run, the level the overlay shows equals the level of
\* the alarm sound.
C25_ShownLevelIsAudioLevel ==
    (isAlarmTriggered /\ isOpen /\ LevelTimersSettled) =>
        volumeLevel = LevelOf(audio)

\* C25 for an overlay that opened at the instant of its startAlarm (its
\* 10000 ms interval, which has ticked volumeLevel - 1 times, was created
\* at startTime): the two levels are equal once the timers due now have run.
C25_LevelsEqualWhenOpenedAtStart ==
    (/\ isAlarmTriggered /\ isOpen /\ LevelTimersSettled
     /\ audio.alarmGainNode # Null
     /\ overlayTimer - volumeLevel * OverlayLevelUnits
          = audio.closures[Len(audio.closures)].startTime) =>
        volumeLevel = LevelOf(audio)

\* C26: when the overlay opens for a trigger the input buffer is empty, the
\* progress is 0 and isWrong is false; input events happen only with the
\* overlay shown, and while it is shown the buffer changes only by the
\* input events of this trigger.
C26_VerificationStartsFromScratch ==
    [][ /\ (isOpen' /\ ~isOpen) =>
             /\ input' = <<>>
             /\ ~isWrong'
             /\ ProgressOf(input', alarmHour', alarmMinute') = 0
        /\ last'.op = "input" => isOpen
        /\ (isOpen /\ isOpen' /\ input' # input) =>
             (last'.op = "input" /\ input' = last'.text)
      ]_vars

\* C26 from the run of the effects of the overlay's opening: when they have
\* run the buffer is empty, the progress is 0 and isWrong is false, and from
\* then on, while the overlay is shown, the buffer changes only by the input
\* events of this trigger.
C26_VerificationStartsFromScratchOnceReset ==
    [][ /\ (effectOpen' /\ ~effectOpen) =>
             /\ input' = <<>>
             /\ ~isWrong'
             /\ ProgressOf(input', alarmHour', alarmMinute') = 0
        /\ last'.op = "input" => isOpen
        /\ (effectOpen /\ effectOpen' /\ input' # input) =>
             (last'.op = "input" /\ input' = last'.text)
      ]_vars

\* The text "3." followed by the first requiredDigits digits of pi, for the
\* stored alarm.
DismissingText == ThreePointPi(RequiredDigits(alarmHour, alarmMinute))

\* PI_DIGITS has the digits the stored alarm requires.
EnoughPiDigits == RequiredDigits(alarmHour, alarmMinute) <= Len(PI_DIGITS)

\* The alarm is Idle: not Triggered, no alarm stored, no escalation interval.
Idle ==
    /\ ~isAlarmTriggered
    /\ alarmHour = Null
    /\ alarmMinute = Null
    /\ audio.alarmIntervalId = Null

\* C27: in every state in which the alarm is Triggered, whatever the buffer
\* and the level, the text "3." + the first requiredDigits digits of pi is
\* scored complete, and the input event that carries it to the overlay
\* leaves the alarm Idle.
C27_TriggeredCanBeDismissed ==
    /\ []((isAlarmTriggered /\ EnoughPiDigits) =>
            IsComplete(CorrectCount(DigitsAfterDecimal(DismissingText),
                                    ExpectedDigits(alarmHour, alarmMinute)),
                       RequiredDigits(alarmHour, alarmMinute)))
    /\ [][ (/\ isAlarmTriggered /\ EnoughPiDigits
            /\ last'.op = "input" /\ last'.text = DismissingText) =>
               (last'.complete /\ Idle')
         ]_vars

\* C27 witness: the alarm of 00:01 was dismissed at level 3 or more by the
\* text "3.1".
C27_Witness ==
    /\ last.op = "input"
    /\ last.text = ThreePointPi(last.required)
    /\ last.required = 1
    /\ LevelOf(audio) >= 3
    /\ Idle

\* A step of the Confirm button: setting mode ends with an alarm stored.
Confirms == isSettingMode /\ ~isSettingMode' /\ alarmHour' # Null

\* C28: Confirm stores the hour 12 * floor(currentHour / 12) + settingHour,
\* with settingHour in 0..11 and currentHour the clock value captured when
\* setting began: the value rendered with the Set Alarm click, which Confirm
\* reads and which stays as it is in setting mode (the clock does not tick).
\* So the alarm hour is an hour of that clock value's half-day.
C28_AlarmHourInClockHalfDay ==
    [][ /\ Confirms =>
             /\ renderedSetting.h \in 0..(HoursPerDial - 1)
             /\ alarmHour' = HoursPerDial * (renderedTime.h \div HoursPerDial)
                                + renderedSetting.h
             /\ alarmHour' \div HoursPerDial = renderedTime.h \div HoursPerDial
             /\ alarmHour' \in 0..(HoursPerDay - 1)
        /\ (~isSettingMode /\ isSettingMode') => renderedTime' = currentTime'
        /\ isSettingMode =>
             /\ renderedTime = currentTime
             /\ currentTime' = currentTime
             /\ renderedTime' = renderedTime
      ]_vars

\* C28 witness: with the clock at 23 h, the dial hour 11 was confirmed as the
\* alarm hour 23.
C28_Witness ==
    /\ ~isSettingMode
    /\ settingHour = 11
    /\ alarmHour = 23
    /\ alarmTimeDisplay = TimeDisplay(23, alarmMinute)
====
